---------------------------- MODULE Spec2Model ----------------------------
(* A model of z_lib: the path resolver (path_resolver.py), the ZIP backend  *)
(* (backend/zipfile_backend.py) and the virtual walk (namespaces/z_os.py).  *)
(*                                                                          *)
(* A string is a sequence of tokens.  A token is a separator ("/" or "\\") *)
(* or a run of characters that holds no separator, so that splitting,      *)
(* joining and comparing strings work on the token sequence as Python's    *)
(* str.split, str.join and == work on the characters.                      *)
EXTENDS Integers, Sequences, FiniteSets, TLC

VARIABLES
    path,          \* resolver: the virtual path handed to the resolver
    loaded_zips,   \* the registry: key string -> ZipHandle
    rpc,           \* resolver: "start", or the function that has returned
    found,         \* resolver: what find_longest_match_handle returned
    resolved,      \* resolver: what resolve_to_real_path returned or raised
    disk_zip,      \* backend: archive path -> what the file at that path holds
    disk_parent,   \* backend: archive path -> whether its directory exists
    disk_tmp,      \* backend: archive path -> whether a ".tmp_zip" file is beside it
    disk_dirs,     \* backend: working directory -> its tree, for those on disk
    ntemp,         \* backend: how many working directories mkdtemp has made
    last_op,       \* backend: the last open or close and how it ended
    opened,        \* backend: archive path -> the tree its last open extracted,
                   \*          and whether the working directory was changed since
    reopened,      \* backend: archive path -> the trees of two opens around an
                   \*          unmodified close with save
    wargs,         \* walk: the arguments of the call, and the file system's mood
    stack,         \* walk: the generator's pending work, innermost first
    gen,           \* walk: "running", "suspended" at a yield, "raised" or "done"
    cur,           \* walk: the tuple the consumer holds, its lists mutable
    out,           \* walk: every tuple yielded so far, as it was yielded
    errs,          \* walk: the directories onerror was called for
    skipped,       \* walk: the directories that could not be listed
    pruned         \* walk: the children the consumer removed from a yielded list

pvars == <<path, rpc, found, resolved>>
avars == <<disk_zip, disk_parent, disk_tmp, disk_dirs, ntemp, last_op, opened, reopened>>
wvars == <<wargs, stack, gen, cur, out, errs, skipped, pruned>>
vars == <<pvars, loaded_zips, avars, wvars>>

-----------------------------------------------------------------------------
(* Bounds *)

\* The longest path, in components, the resolver is handed.
MaxParts == 4

\* How many times open gets as far as making a working directory.
MaxOpens == 2

-----------------------------------------------------------------------------
(* Strings *)

Sep == "/"
BSep == "\\"

\* Python's None where a string is expected, and where a ZipHandle is.
NoneStr == <<"<None>">>
NoHandle == [path |-> NoneStr, temp_dir |-> NoneStr, mode |-> "<None>"]

\* The process's current directory, "/d", as Path.resolve() sees it.
CwdParts == << <<"d">> >>

\* str.lower() on a token.
Lower(t) ==
    CASE t = "B.ZIP" -> "b.zip"
      [] t = "Q.ZIP" -> "q.zip"
      [] OTHER -> t

\* part.lower().endswith(".zip") on a component (a string without "/").
EndsWithZip(part) ==
    Len(part) > 0 /\ Lower(part[Len(part)]) \in {"a.zip", "b.zip", "p.zip", "q.zip"}

\* str.split("/")
RECURSIVE StrSplit(_)
StrSplit(s) ==
    IF \A i \in 1..Len(s) : s[i] # Sep
    THEN <<s>>
    ELSE LET k == CHOOSE i \in 1..Len(s) :
                     s[i] = Sep /\ \A j \in 1..(i - 1) : s[j] # Sep
         IN  <<SubSeq(s, 1, k - 1)>> \o StrSplit(SubSeq(s, k + 1, Len(s)))

\* "/".join(parts)
RECURSIVE StrJoin(_)
StrJoin(parts) ==
    IF Len(parts) = 0 THEN <<>>
    ELSE IF Len(parts) = 1 THEN parts[1]
    ELSE parts[1] \o <<Sep>> \o StrJoin(Tail(parts))

normalize_path(p) ==
    [i \in 1..Len(p) |-> IF p[i] = BSep THEN Sep ELSE p[i]]

\* The components of a POSIX path that name something: pathlib drops the
\* empty ones ("a//b", a trailing "/").
NameParts(s) == SelectSeq(StrSplit(s), LAMBDA c : c # <<>>)

IsAbsolute(s) == Len(s) > 0 /\ s[1] = Sep

\* The one symbolic link of the file system: "/d/r/ln" -> "/d/o".
LinkParts == << <<"d">>, <<"r">>, <<"ln">> >>
LinkTargetParts == << <<"d">>, <<"o">> >>

\* The absolute path as written: the current directory before a relative one.
AbsParts(s) == (IF IsAbsolute(s) THEN <<>> ELSE CwdParts) \o NameParts(s)

\* str(Path(s).resolve()): the absolute path, the symbolic link followed.
PathResolve(s) ==
    LET a == AbsParts(s)
    IN  <<Sep>> \o StrJoin(
            IF Len(a) >= Len(LinkParts) /\ SubSeq(a, 1, Len(LinkParts)) = LinkParts
            THEN LinkTargetParts \o SubSeq(a, Len(LinkParts) + 1, Len(a))
            ELSE a)

\* str(Path(a) / b): an absolute b replaces a.
PathJoin(a, b) ==
    IF IsAbsolute(b) THEN <<Sep>> \o StrJoin(NameParts(b))
    ELSE (IF IsAbsolute(a) THEN <<Sep>> ELSE <<>>)
            \o StrJoin(NameParts(a) \o NameParts(b))

-----------------------------------------------------------------------------
(* path_resolver.py *)

\* split_zip_path stopping at the last zip-suffixed component.
SplitIndexLast(parts) ==
    IF \E i \in 1..Len(parts) : EndsWithZip(parts[i])
    THEN CHOOSE i \in 1..Len(parts) :
            EndsWithZip(parts[i]) /\ \A j \in (i + 1)..Len(parts) : ~EndsWithZip(parts[j])
    ELSE 0

\* The zip-suffixed component split_zip_path stops at: the first one.
SplitIndex(parts) ==
    IF \E i \in 1..Len(parts) : EndsWithZip(parts[i])
    THEN CHOOSE i \in 1..Len(parts) :
            EndsWithZip(parts[i]) /\ \A j \in 1..(i - 1) : ~EndsWithZip(parts[j])
    ELSE 0

split_zip_path(p) ==
    LET parts == StrSplit(normalize_path(p))
        i == SplitIndex(parts)
    IN  IF i > 0
        THEN <<StrJoin(SubSeq(parts, 1, i)), StrJoin(SubSeq(parts, i + 1, Len(parts)))>>
        ELSE <<NoneStr, p>>

\* The first loop: the longest prefix that is a key as it is written.
StringMatchIndex(parts, zips) ==
    LET hits == {i \in 1..Len(parts) : StrJoin(SubSeq(parts, 1, i)) \in DOMAIN zips}
    IN  IF hits = {} THEN 0 ELSE CHOOSE i \in hits : \A j \in hits : j <= i

\* The second loop: the longest prefix whose resolved path is a key.
ResolvedMatchIndex(parts, zips) ==
    LET hits == {i \in 1..Len(parts) :
                    normalize_path(PathResolve(StrJoin(SubSeq(parts, 1, i)))) \in DOMAIN zips}
    IN  IF hits = {} THEN 0 ELSE CHOOSE i \in hits : \A j \in hits : j <= i

find_longest_match_handle(p, zips) ==
    LET parts == StrSplit(normalize_path(p))
        i == StringMatchIndex(parts, zips)
        k == ResolvedMatchIndex(parts, zips)
    IN  IF i > 0
        THEN <<zips[StrJoin(SubSeq(parts, 1, i))], StrJoin(SubSeq(parts, i + 1, Len(parts)))>>
        ELSE IF k > 0
        THEN <<zips[normalize_path(PathResolve(StrJoin(SubSeq(parts, 1, k))))],
               StrJoin(SubSeq(parts, k + 1, Len(parts)))>>
        ELSE <<NoHandle, p>>

resolve_to_real_path(p, zips) ==
    LET m == find_longest_match_handle(p, zips)
        z == split_zip_path(p)
    IN  IF m[1] # NoHandle
        THEN [kind |-> "path", value |-> PathJoin(m[1].temp_dir, m[2])]
        ELSE IF z[1] # NoneStr /\ z[1] # <<>>
        THEN [kind |-> "ZipNotLoadedError", value |-> z[1]]
        ELSE [kind |-> "path", value |-> PathResolve(p)]

-----------------------------------------------------------------------------
(* The resolver's inputs *)

Components == { <<>>, <<"d">>, <<"a.zip">>, <<"B.ZIP">>, <<"x">> }

RECURSIVE Interleave(_, _)
Interleave(comps, sep) ==
    IF Len(comps) = 1 THEN comps[1]
    ELSE comps[1] \o <<sep>> \o Interleave(Tail(comps), sep)

\* The paths handed to the resolver: absolute or relative, written with
\* forward slashes or with backslashes.
PathStrings ==
    UNION { { (IF lead THEN <<sep>> ELSE <<>>) \o Interleave(comps, sep) :
                 lead \in BOOLEAN,
                 comps \in [1..n -> Components],
                 sep \in {Sep, BSep} } : n \in 1..MaxParts }

\* The archive paths that may be registered: as given (relative, the form
\* the tests use) and resolved.
CandidateKeys ==
    { <<"a.zip">>,
      <<"a.zip", Sep, "B.ZIP">>,
      <<Sep, "d", Sep, "a.zip">>,
      <<Sep, "d", Sep, "a.zip", Sep, "B.ZIP">> }

TempDirOf(key) ==
    CASE key = <<"a.zip">> -> <<Sep, "t", Sep, "w1">>
      [] key = <<"a.zip", Sep, "B.ZIP">> -> <<Sep, "t", Sep, "w2">>
      [] key = <<Sep, "d", Sep, "a.zip">> -> <<Sep, "t", Sep, "w3">>
      [] OTHER -> <<Sep, "t", Sep, "w4">>

HandleOf(key) == [path |-> PathResolve(key), temp_dir |-> TempDirOf(key), mode |-> "rw"]

\* One handle per archive file: no two keys of a registry name the same file.
Registries ==
    { [k \in K |-> HandleOf(k)] :
        K \in { S \in SUBSET CandidateKeys :
                  \A j, k \in S : PathResolve(j) = PathResolve(k) => j = k } }

-----------------------------------------------------------------------------
(* The resolver as a state machine: one call of each function on one input *)

ArchiveIdle ==
    /\ disk_zip = <<>>
    /\ disk_parent = <<>>
    /\ disk_tmp = <<>>
    /\ disk_dirs = <<>>
    /\ ntemp = 0
    /\ last_op = [op |-> "<None>"]
    /\ opened = <<>>
    /\ reopened = <<>>

WalkIdle ==
    /\ wargs = [top |-> <<>>, topdown |-> TRUE, onerror |-> FALSE,
                followlinks |-> FALSE, locked |-> FALSE]
    /\ stack = <<>>
    /\ gen = "idle"
    /\ cur = [root |-> <<>>, dirs |-> <<>>, files |-> <<>>, kids |-> <<>>]
    /\ out = <<>>
    /\ errs = <<>>
    /\ skipped = <<>>
    /\ pruned = {}

PathInit ==
    /\ WalkIdle
    /\ path \in PathStrings
    /\ loaded_zips \in Registries
    /\ rpc = "start"
    /\ found = <<NoHandle, <<>>>>
    /\ resolved = [kind |-> "<None>", value |-> <<>>]
    /\ ArchiveIdle

CallFindLongestMatch ==
    /\ rpc = "start"
    /\ rpc' = "find_longest_match_handle"
    /\ found' = find_longest_match_handle(path, loaded_zips)
    /\ UNCHANGED <<path, loaded_zips, resolved, avars, wvars>>

CallResolve ==
    /\ rpc = "start"
    /\ rpc' = "resolve_to_real_path"
    /\ resolved' = resolve_to_real_path(path, loaded_zips)
    /\ UNCHANGED <<path, loaded_zips, found, avars, wvars>>

PathNext == CallFindLongestMatch \/ CallResolve

SpecPath == PathInit /\ [][PathNext]_vars

-----------------------------------------------------------------------------
(* Claims about the resolver *)

Prefix(p, i) == StrJoin(SubSeq(StrSplit(normalize_path(p)), 1, i))
NParts(p) == Len(StrSplit(normalize_path(p)))

\* Prefix i of p matches a key, as the literal string or through its
\* resolved absolute physical path.
PrefixMatches(p, i, zips) ==
    \/ Prefix(p, i) \in DOMAIN zips
    \/ normalize_path(PathResolve(Prefix(p, i))) \in DOMAIN zips

KeyMatched(p, i, zips) ==
    IF Prefix(p, i) \in DOMAIN zips THEN Prefix(p, i)
    ELSE normalize_path(PathResolve(Prefix(p, i)))

\* C2: findLongestMatch returns the handle registered under the longest
\* prefix of the path that matches a registry key, literally or through its
\* resolved path; no strictly longer prefix matches in either way.
C2_LongestMatchWins ==
    rpc = "find_longest_match_handle" =>
        \A i \in 1..NParts(path) :
            (PrefixMatches(path, i, loaded_zips)
               /\ \A j \in (i + 1)..NParts(path) : ~PrefixMatches(path, j, loaded_zips))
            => found = <<loaded_zips[KeyMatched(path, i, loaded_zips)],
                         StrJoin(SubSeq(StrSplit(normalize_path(path)), i + 1, NParts(path)))>>

\* C7: resolve raises archive-not-loaded, naming the shortest prefix whose
\* last component ends in ".zip" (any case), exactly when no prefix matches
\* a key and such a component exists; with no match and no such component it
\* returns the absolute physical path; with a match it returns the working
\* directory joined with the remaining internal path.
C7_ResolveOutcome ==
    rpc = "resolve_to_real_path" =>
        LET parts == StrSplit(normalize_path(path))
            n == Len(parts)
            matched == \E i \in 1..n : PrefixMatches(path, i, loaded_zips)
            zipAt == {i \in 1..n : EndsWithZip(parts[i])}
        IN  /\ (resolved.kind = "ZipNotLoadedError") <=> (~matched /\ zipAt # {})
            /\ resolved.kind = "ZipNotLoadedError" =>
                 \E i \in zipAt : /\ \A j \in zipAt : i <= j
                                  /\ resolved.value = StrJoin(SubSeq(parts, 1, i))
            /\ (~matched /\ zipAt = {}) =>
                 resolved = [kind |-> "path", value |-> PathResolve(path)]
            /\ matched =>
                 \E i \in 1..n :
                    /\ PrefixMatches(path, i, loaded_zips)
                    /\ resolved = [kind |-> "path",
                                   value |-> PathJoin(
                                       loaded_zips[KeyMatched(path, i, loaded_zips)].temp_dir,
                                       StrJoin(SubSeq(parts, i + 1, n)))]

\* C7 witness: a path with two zip-suffixed components, the first in upper
\* case, none registered: the error names the first.
C7_Witness ==
    /\ rpc = "resolve_to_real_path"
    /\ resolved.kind = "ZipNotLoadedError"
    /\ path = <<"B.ZIP", BSep, "a.zip", BSep, "x">>
    /\ resolved.value = <<"B.ZIP">>

-----------------------------------------------------------------------------
(* backend/zipfile_backend.py: archives, names and trees *)

Put(f, k, v) == [x \in (DOMAIN f) \cup {k} |-> IF x = k THEN v ELSE f[x]]
Drop(f, k) == [x \in (DOMAIN f) \ {k} |-> f[x]]

FLAG_UTF8 == 2048

\* A ZipInfo as zipfile reads it: the general purpose flags, the name
\* (decoded as CP437 when bit 11 is clear), the payload, and whether the
\* payload can be read back (its CRC matches).
EntryA == [flag_bits |-> 0, filename |-> <<"A">>, data |-> "c1", ok |-> TRUE]
EntryBdir == [flag_bits |-> 0, filename |-> <<"B", Sep>>, data |-> "", ok |-> TRUE]
EntryBC == [flag_bits |-> 8, filename |-> <<"B", Sep, "C">>, data |-> "c2", ok |-> TRUE]
EntryBCbad == [flag_bits |-> 8, filename |-> <<"B", Sep, "C">>, data |-> "c2", ok |-> FALSE]
EntryEdir == [flag_bits |-> 0, filename |-> <<"E", Sep>>, data |-> "", ok |-> TRUE]
\* Bytes 93 FA, CP932 for U+65E5, written by a legacy tool: read as CP437.
EntryLegacy == [flag_bits |-> 0, filename |-> <<"cp437(93FA)">>, data |-> "c3", ok |-> TRUE]
\* Byte FD, no CP932 character.
EntryLegacyBad == [flag_bits |-> 0, filename |-> <<"cp437(FD)">>, data |-> "c4", ok |-> TRUE]
\* The same characters as EntryLegacy's name, stored as UTF-8 with bit 11 set.
EntryUtf8 == [flag_bits |-> 2056, filename |-> <<"D", Sep, "cp437(93FA)">>, data |-> "c5", ok |-> TRUE]

Absent == [kind |-> "absent", entries |-> <<>>]
Junk == [kind |-> "junk", entries |-> <<>>]
ZipOf(es) == [kind |-> "zip", entries |-> es]

EmptyTree == [dirs |-> {}, files |-> <<>>]

\* str.encode("cp437"), bytes.decode("cp932") and their failure, by token.
Cp437Encode(t) ==
    CASE t = "cp437(93FA)" -> "93FA"
      [] t = "cp437(FD)" -> "FD"
      [] OTHER -> t

Cp932Valid(b) == b # "FD"

Cp932Decode(b) == IF b = "93FA" THEN "U+65E5" ELSE b

IsAscii(t) == t \notin {"cp437(93FA)", "cp437(FD)", "U+65E5"}

_decode_zip_filename(info) ==
    IF (info.flag_bits \div FLAG_UTF8) % 2 = 1
    THEN info.filename
    ELSE LET raw_bytes == [i \in 1..Len(info.filename) |-> Cp437Encode(info.filename[i])]
         IN  IF \A i \in 1..Len(raw_bytes) : Cp932Valid(raw_bytes[i])
             THEN [i \in 1..Len(raw_bytes) |-> Cp932Decode(raw_bytes[i])]
             ELSE info.filename

\* The directories above rel, and rel itself: what mkdir(parents=True) makes.
WithParents(rel) ==
    LET parts == NameParts(rel)
    IN  { StrJoin(SubSeq(parts, 1, i)) : i \in 1..Len(parts) }

ParentsOf(rel) ==
    LET parts == NameParts(rel)
    IN  { StrJoin(SubSeq(parts, 1, i)) : i \in 1..(Len(parts) - 1) }

\* One turn of the loop of _extract_with_encoding: the tree after the entry,
\* and whether it raised.
ExtractEntry(tree, info) ==
    LET correct_name == _decode_zip_filename(info)
        rel == StrJoin(NameParts(correct_name))
    IN  IF Len(correct_name) > 0 /\ correct_name[Len(correct_name)] = Sep
        THEN IF WithParents(rel) \cap DOMAIN tree.files # {}
             THEN [tree |-> tree, raised |-> TRUE]
             ELSE [tree |-> [tree EXCEPT !.dirs = @ \cup WithParents(rel)], raised |-> FALSE]
        ELSE IF ParentsOf(rel) \cap DOMAIN tree.files # {}
             THEN [tree |-> tree, raised |-> TRUE]
        ELSE IF rel \in tree.dirs \/ ~info.ok
             THEN [tree |-> [tree EXCEPT !.dirs = @ \cup ParentsOf(rel)], raised |-> TRUE]
        ELSE [tree |-> [dirs |-> tree.dirs \cup ParentsOf(rel),
                        files |-> Put(tree.files, rel, info.data)],
              raised |-> FALSE]

RECURSIVE _extract_with_encoding(_, _)
_extract_with_encoding(infolist, tree) ==
    IF Len(infolist) = 0 THEN [tree |-> tree, raised |-> FALSE]
    ELSE LET r == ExtractEntry(tree, Head(infolist))
         IN  IF r.raised THEN r ELSE _extract_with_encoding(Tail(infolist), r.tree)

RECURSIVE SetToSeq(_)
SetToSeq(S) ==
    IF S = {} THEN <<>>
    ELSE LET x == CHOOSE y \in S : TRUE IN <<x>> \o SetToSeq(S \ {x})

\* zf.write(file_path, arcname): bit 11 is set when the name is not ASCII.
WrittenEntry(name, data) ==
    [flag_bits |-> IF \A i \in 1..Len(name) : IsAscii(name[i]) THEN 0 ELSE FLAG_UTF8,
     filename |-> name, data |-> data, ok |-> TRUE]

\* The archive the loop over os.walk(temp_dir) writes: an entry for every
\* file, named by its path relative to the working directory.
WriteTree(tree) ==
    ZipOf(SetToSeq({ WrittenEntry(f, tree.files[f]) : f \in DOMAIN tree.files }))

TempName(n) ==
    <<Sep, "tmp", Sep,
      CASE n = 1 -> "z_lib_1" [] n = 2 -> "z_lib_2" [] n = 3 -> "z_lib_3"
        [] n = 4 -> "z_lib_4" [] n = 5 -> "z_lib_5" [] OTHER -> "z_lib_6">>

FileAt(p) == IF p \in DOMAIN disk_zip THEN disk_zip[p] ELSE Absent

\* ZipFileBackend.open: what it raises, the handle it returns, the working
\* directories on disk afterwards, and whether mkdtemp was called.
ZipFileBackend_open(p, create, mode) ==
    LET path_obj == PathResolve(p)
        file == FileAt(path_obj)
        temp_dir == TempName(ntemp + 1)
        x == _extract_with_encoding(file.entries, EmptyTree)
    IN  IF file.kind = "absent" /\ ~create
        THEN [raised |-> "FileNotFoundError", handle |-> NoHandle, dirs |-> disk_dirs, made |-> 0]
        ELSE IF file.kind = "zip"
        THEN [raised |-> IF x.raised THEN "BadZipFile" ELSE "<None>",
              handle |-> IF x.raised THEN NoHandle
                         ELSE [path |-> path_obj, temp_dir |-> temp_dir, mode |-> mode],
              dirs |-> Put(disk_dirs, temp_dir, x.tree), made |-> 1]
        ELSE IF file.kind = "junk"
        THEN [raised |-> "ZipPathError", handle |-> NoHandle, dirs |-> disk_dirs, made |-> 1]
        ELSE [raised |-> "<None>",
              handle |-> [path |-> path_obj, temp_dir |-> temp_dir, mode |-> mode],
              dirs |-> Put(disk_dirs, temp_dir, EmptyTree), made |-> 1]

\* The rewrite done on the target itself, without a temporary file.
RewriteInPlace(handle, fault) ==
    LET target == handle.path
        tree == disk_dirs[handle.temp_dir]
        same == [zip |-> disk_zip, parent |-> disk_parent, tmp |-> disk_tmp, failed |-> "<None>"]
    IN  IF ~disk_parent[target] /\ fault = "mkdir"
        THEN [same EXCEPT !.failed = "mkdir"]
        ELSE IF fault = "write"
        THEN [same EXCEPT !.parent = Put(disk_parent, target, TRUE),
                          !.zip = Put(disk_zip, target, Junk),
                          !.failed = "write"]
        ELSE [same EXCEPT !.parent = Put(disk_parent, target, TRUE),
                          !.zip = Put(disk_zip, target, WriteTree(tree))]

\* The try block of ZipFileBackend.close: the new archive built at a
\* temporary file beside the target and moved over it.  fault is the step
\* the file system refuses, if any; the except clause removes the temporary
\* file before the error goes on.
Rewrite(handle, fault) ==
    LET target == handle.path
        tree == disk_dirs[handle.temp_dir]
        same == [zip |-> disk_zip, parent |-> disk_parent, tmp |-> disk_tmp, failed |-> "<None>"]
        made == [same EXCEPT !.parent = Put(disk_parent, target, TRUE)]
    IN  IF ~disk_parent[target] /\ fault = "mkdir"
        THEN [same EXCEPT !.failed = "mkdir"]
        ELSE IF fault = "mkstemp"
        THEN [made EXCEPT !.failed = "mkstemp"]
        ELSE IF fault \in {"write", "move"}
        THEN [made EXCEPT !.failed = fault]
        ELSE [made EXCEPT !.zip = Put(disk_zip, target, WriteTree(tree))]

\* ZipFileBackend.close: the try block when it applies, then the finally
\* block, whose rmtree ignores its own failure (rmfail).
ZipFileBackend_close(handle, save, fault, rmfail) ==
    LET exists == handle.temp_dir \in DOMAIN disk_dirs
        r == IF save /\ handle.mode = "rw" /\ exists
             THEN Rewrite(handle, fault)
             ELSE [zip |-> disk_zip, parent |-> disk_parent, tmp |-> disk_tmp,
                   failed |-> "<None>"]
    IN  [zip |-> r.zip, parent |-> r.parent, tmp |-> r.tmp, failed |-> r.failed,
         raised |-> r.failed # "<None>",
         dirs |-> IF exists /\ ~rmfail THEN Drop(disk_dirs, handle.temp_dir) ELSE disk_dirs]

-----------------------------------------------------------------------------
(* The registry around the backend (the library's open and close) *)

\* open registers the handle the backend returned under its archive path.
Register(zips, handle) == Put(zips, normalize_path(handle.path), handle)

\* The handle taken out of the registry only when the backend's close
\* returned normally.
UnregisterOnSuccess(zips, key, raised) == IF raised THEN zips ELSE Drop(zips, key)

\* close takes the handle out of the registry whatever the backend's close did.
Unregister(zips, key, raised) == Drop(zips, key)

-----------------------------------------------------------------------------
(* The backend as a state machine *)

ArchiveP1 == <<Sep, "d", Sep, "a.zip">>
ArchiveP2 == <<Sep, "d", Sep, "n", Sep, "b.zip">>
ArchivePaths == {ArchiveP1, ArchiveP2}

\* What open is handed: an archive path, absolute or relative to "/d".
OpenPaths == {<<"a.zip">>, ArchiveP1, <<"n", Sep, "b.zip">>}

InitialImages ==
    { Absent, Junk,
      ZipOf(<<EntryA, EntryBdir, EntryBC>>),
      ZipOf(<<EntryA, EntryEdir>>),
      ZipOf(<<EntryLegacy, EntryLegacyBad, EntryUtf8>>),
      ZipOf(<<EntryA, EntryBCbad>>) }

PathIdle ==
    /\ path = <<>>
    /\ rpc = "idle"
    /\ found = <<NoHandle, <<>>>>
    /\ resolved = [kind |-> "<None>", value |-> <<>>]

NoOp ==
    [op |-> "<None>", key |-> <<>>, raised |-> FALSE, error |-> "<None>",
     failed |-> "<None>", before |-> Absent, tree |-> EmptyTree, temp_dir |-> <<>>]

ArchiveInit ==
    /\ PathIdle
    /\ WalkIdle
    /\ loaded_zips = <<>>
    /\ \E img \in InitialImages, second \in {"nodir", "absent", "zip"} :
          /\ disk_zip = (ArchiveP1 :> img) @@
                        (ArchiveP2 :> IF second = "zip"
                                      THEN ZipOf(<<EntryBC, EntryEdir>>) ELSE Absent)
          /\ disk_parent = (ArchiveP1 :> TRUE) @@ (ArchiveP2 :> (second # "nodir"))
    /\ disk_tmp = [p \in ArchivePaths |-> FALSE]
    /\ disk_dirs = <<>>
    /\ ntemp = 0
    /\ last_op = NoOp
    /\ opened = <<>>
    /\ reopened = <<>>

\* open(path, create, mode).  An archive that is open is not opened again.
Open ==
    \E p \in OpenPaths, create \in BOOLEAN, mode \in {"r", "rw"} :
        LET r == ZipFileBackend_open(p, create, mode)
            key == normalize_path(PathResolve(p))
            ok == r.raised = "<None>"
        IN  /\ ntemp < MaxOpens
            /\ key \notin DOMAIN loaded_zips
            /\ create => FileAt(key).kind = "absent"
            /\ disk_dirs' = r.dirs
            /\ ntemp' = ntemp + r.made
            /\ loaded_zips' = IF ok THEN Register(loaded_zips, r.handle) ELSE loaded_zips
            /\ last_op' = [NoOp EXCEPT !.op = "open", !.key = key, !.raised = ~ok,
                                       !.error = r.raised,
                                       !.before = FileAt(key)]
            /\ opened' = IF ok
                         THEN Put(opened, key, [tree |-> r.dirs[r.handle.temp_dir],
                                                clean |-> TRUE, saved |-> FALSE])
                         ELSE opened
            /\ reopened' = IF ok /\ key \in DOMAIN opened /\ opened[key].saved
                           THEN Put(reopened, key, [first |-> opened[key].tree,
                                                    second |-> r.dirs[r.handle.temp_dir]])
                           ELSE reopened
            /\ UNCHANGED <<pvars, wvars, disk_zip, disk_parent, disk_tmp>>

\* A client writes a file, or makes a directory, in a working directory.
WorkdirWrite ==
    \E key \in DOMAIN loaded_zips, what \in {"file", "dir"} :
        LET t == loaded_zips[key].temp_dir
        IN  /\ t \in DOMAIN disk_dirs
            /\ disk_dirs[t].dirs \cap {<<"N">>, <<"M">>} = {}
            /\ <<"N">> \notin DOMAIN disk_dirs[t].files
            /\ disk_dirs' =
                 [disk_dirs EXCEPT ![t] =
                    IF what = "file"
                    THEN [@ EXCEPT !.files = Put(@, <<"N">>, "c9")]
                    ELSE [@ EXCEPT !.dirs = @ \cup {<<"M">>}]]
            /\ opened' = [opened EXCEPT ![key].clean = FALSE]
            /\ UNCHANGED <<pvars, wvars, loaded_zips, disk_zip, disk_parent, disk_tmp,
                           ntemp, last_op, reopened>>

\* close(handle, save), with the step of the rewrite the file system refuses
\* and whether it refuses to delete the working directory.
Close ==
    \E key \in DOMAIN loaded_zips, save \in BOOLEAN, rmfail \in BOOLEAN,
       fault \in {"<None>", "mkdir", "mkstemp", "write", "move"} :
        LET h == loaded_zips[key]
            r == ZipFileBackend_close(h, save, fault, rmfail)
        IN  /\ fault # "<None>" => save /\ h.mode = "rw"
            /\ fault = "mkdir" => ~disk_parent[h.path]
            /\ disk_zip' = r.zip
            /\ disk_parent' = r.parent
            /\ disk_tmp' = r.tmp
            /\ disk_dirs' = r.dirs
            /\ loaded_zips' = Unregister(loaded_zips, key, r.raised)
            /\ last_op' = [NoOp EXCEPT !.op = "close", !.key = key, !.raised = r.raised,
                                       !.error = IF r.raised THEN "OSError" ELSE "<None>",
                                       !.failed = r.failed,
                                       !.before = disk_zip[h.path],
                                       !.tree = IF h.temp_dir \in DOMAIN disk_dirs
                                                THEN disk_dirs[h.temp_dir] ELSE EmptyTree,
                                       !.temp_dir = h.temp_dir]
            /\ opened' = [opened EXCEPT ![key].saved =
                             save /\ h.mode = "rw" /\ ~r.raised /\ opened[key].clean]
            /\ UNCHANGED <<pvars, wvars, ntemp, reopened>>

ArchiveNext == Open \/ WorkdirWrite \/ Close

SpecArchive == ArchiveInit /\ [][ArchiveNext]_vars

-----------------------------------------------------------------------------
(* Claims about the backend *)

RegisteredDirs == { loaded_zips[k].temp_dir : k \in DOMAIN loaded_zips }

\* C3: a working directory exists on disk if and only if the handle that
\* owns it is in the registry, after any sequence of opens and closes,
\* those that fail included.
C3_WorkingDirIffRegistered == DOMAIN disk_dirs = RegisteredDirs

\* C4: once close has finished, however it ended, the handle is no longer in
\* the registry.
C4_CloseAlwaysUnregisters ==
    last_op.op = "close" => last_op.key \notin DOMAIN loaded_zips

\* C4 witness: a close whose rewrite failed and was propagated, and whose
\* working directory could not be deleted.
C4_Witness ==
    /\ last_op.op = "close"
    /\ last_op.raised
    /\ last_op.temp_dir \in DOMAIN disk_dirs
    /\ last_op.key \notin DOMAIN loaded_zips

\* C5: when close(handle, save=true) on a read-write handle fails at a step of
\* building the new archive, the failure is propagated, no temporary archive
\* file is left and the target holds what it held before; the target changes
\* only to the archive written completely from the working directory.
C5_FailedRewriteLeavesTarget ==
    last_op.op = "close" =>
        /\ last_op.failed # "<None>" =>
              /\ last_op.raised
              /\ ~disk_tmp[last_op.key]
              /\ disk_zip[last_op.key] = last_op.before
        /\ disk_zip[last_op.key] # last_op.before =>
              /\ ~last_op.raised
              /\ ~disk_tmp[last_op.key]
              /\ disk_zip[last_op.key].kind = "zip"
              /\ \A f \in DOMAIN last_op.tree.files :
                    \E i \in 1..Len(disk_zip[last_op.key].entries) :
                       /\ disk_zip[last_op.key].entries[i].filename = f
                       /\ disk_zip[last_op.key].entries[i].data = last_op.tree.files[f]

\* C5 witness: the write of an entry fails while an earlier archive is at
\* the target and the working directory holds files.
C5_Witness ==
    /\ last_op.op = "close"
    /\ last_op.failed = "write"
    /\ last_op.before.kind = "zip"
    /\ DOMAIN last_op.tree.files # {}
    /\ disk_zip[last_op.key] = last_op.before

\* C6: open, no change to the working directory, close with save, open
\* again: the second open extracts the same directories (those without a
\* file included) and the same files with the same bytes as the first.
C6_RoundTrip ==
    \A k \in DOMAIN reopened : reopened[k].first = reopened[k].second

-----------------------------------------------------------------------------
(* namespaces/z_os.py: the file system the walk runs on *)

\* The most entries a consumer removes from yielded lists in one walk.
MaxPrunes == 1

AbsOf(names) == <<Sep>> \o StrJoin([i \in 1..Len(names) |-> <<names[i]>>])

DirNode(entries, listable) == [kind |-> "dir", entries |-> entries, listable |-> listable]
LeafNode(kind) == [kind |-> kind, entries |-> <<>>, listable |-> FALSE]

\* What is at an absolute path, the link itself at the link's path.  locked
\* makes two directories unreadable: os.listdir on them fails.
FsNode(p, locked) ==
    CASE p = AbsOf(<<"d", "r">>) -> DirNode(<<"p.zip", "s1", "n.txt", "s2", "ln">>, TRUE)
      [] p = AbsOf(<<"d", "r", "s1">>) -> DirNode(<<"q.zip", "f">>, TRUE)
      [] p = AbsOf(<<"d", "r", "s2">>) -> DirNode(<<"u">>, ~locked)
      [] p = AbsOf(<<"d", "r", "s2", "u">>) -> DirNode(<<>>, TRUE)
      [] p = AbsOf(<<"d", "o">>) -> DirNode(<<"g">>, TRUE)
      [] p = AbsOf(<<"d", "r", "ln">>) -> LeafNode("link")
      [] p \in { AbsOf(<<"d", "r", "p.zip">>), AbsOf(<<"d", "r", "n.txt">>),
                 AbsOf(<<"d", "r", "s1", "q.zip">>), AbsOf(<<"d", "r", "s1", "f">>),
                 AbsOf(<<"d", "o", "g">>), AbsOf(<<"tmp", "w1", "k">>),
                 AbsOf(<<"tmp", "w1", "c", "h">>) } -> LeafNode("file")
      [] p = AbsOf(<<"tmp", "w1">>) -> DirNode(<<"k", "a", "c">>, TRUE)
      [] p = AbsOf(<<"tmp", "w1", "a">>) -> DirNode(<<"b">>, TRUE)
      [] p = AbsOf(<<"tmp", "w1", "a", "b">>) -> DirNode(<<>>, ~locked)
      [] p = AbsOf(<<"tmp", "w1", "c">>) -> DirNode(<<"h">>, TRUE)
      [] p = AbsOf(<<"tmp", "w2">>) -> DirNode(<<"m">>, TRUE)
      [] p = AbsOf(<<"tmp", "w2", "m">>) -> DirNode(<<>>, TRUE)
      [] OTHER -> LeafNode("missing")

\* Path.is_dir(), os.path.isdir(): the link followed.
IsDir(p, locked) == FsNode(PathResolve(p), locked).kind = "dir"

\* Path.is_symlink(), os.path.islink().
IsLink(p, locked) == FsNode(<<Sep>> \o StrJoin(AbsParts(p)), locked).kind = "link"

\* Whether os.listdir, Path.iterdir or os.scandir succeeds on p.
CanList(p, locked) ==
    FsNode(PathResolve(p), locked).kind = "dir" /\ FsNode(PathResolve(p), locked).listable

Listing(p, locked) == FsNode(PathResolve(p), locked).entries

KeyP == AbsOf(<<"d", "r", "p.zip">>)
KeyQ == AbsOf(<<"d", "r", "s1", "q.zip">>)

WalkHandle(key) ==
    [path |-> key, mode |-> "rw",
     temp_dir |-> IF key = KeyP THEN AbsOf(<<"tmp", "w1">>) ELSE AbsOf(<<"tmp", "w2">>)]

WalkRegistries == { [k \in K |-> WalkHandle(k)] : K \in SUBSET {KeyP, KeyQ} }

Tops ==
    { <<"r">>, AbsOf(<<"d", "r">>), <<"r", BSep, "s2">>,
      AbsOf(<<"d", "r", "n.txt">>), AbsOf(<<"d", "r", "p.zip", "a">>) }

-----------------------------------------------------------------------------
(* namespaces/z_os.py: Z_OS._walk_recursive, and os.walk beneath it *)

Child(v, name) == v \o <<Sep, name>>

\* a is b or lies beneath b, as the paths are written.
UnderOrEq(a, b) ==
    /\ Len(AbsParts(a)) >= Len(AbsParts(b))
    /\ SubSeq(AbsParts(a), 1, Len(AbsParts(b))) = AbsParts(b)

Under(a, b) == UnderOrEq(a, b) /\ Len(AbsParts(a)) > Len(AbsParts(b))

\* An entry of the stack: what is pending (t), the path it is about (v), the
\* archive key and working directory of an os.walk, and two lists of names.
Item(t, v, key, tmp, a, b) == [t |-> t, v |-> v, key |-> key, tmp |-> tmp, a |-> a, b |-> b]

Tuple(root, dirs, files, kids) == [root |-> root, dirs |-> dirs, files |-> files, kids |-> kids]

\* The loop that sorts the entries of real_top into sub_dirs, zip_entries and
\* sub_files.
IsSubDir(e, followlinks, locked) ==
    IsDir(e, locked) /\ ~(IsLink(e, locked) /\ ~followlinks)

IsZipEntry(e, zips, followlinks, locked) ==
    /\ ~IsSubDir(e, followlinks, locked)
    /\ normalize_path(PathResolve(e)) \in DOMAIN zips

Classify(real_top, zips, followlinks, locked) ==
    LET entries == Listing(real_top, locked)
    IN  [sub_dirs |-> SelectSeq(entries,
            LAMBDA n : IsSubDir(Child(real_top, n), followlinks, locked)),
         zip_entries |-> SelectSeq(entries,
            LAMBDA n : IsZipEntry(Child(real_top, n), zips, followlinks, locked)),
         sub_files |-> SelectSeq(entries,
            LAMBDA n : /\ ~IsSubDir(Child(real_top, n), followlinks, locked)
                       /\ ~IsZipEntry(Child(real_top, n), zips, followlinks, locked))]

ZipChild(real_top, zname) == normalize_path(PathResolve(Child(real_top, zname)))

\* The two recursion loops in the other order: mounted archives first.
ChildCallsZipsFirst(v, sub_dirs, zip_entries) ==
    [i \in 1..Len(zip_entries) |->
        Item("call", ZipChild(PathResolve(v), zip_entries[i]), <<>>, <<>>, <<>>, <<>>)]
    \o [i \in 1..Len(sub_dirs) |->
        Item("call", Child(v, sub_dirs[i]), <<>>, <<>>, <<>>, <<>>)]

\* The two recursion loops: sub_dirs, then zip_entries.
ChildCalls(v, sub_dirs, zip_entries) ==
    [i \in 1..Len(sub_dirs) |->
        Item("call", Child(v, sub_dirs[i]), <<>>, <<>>, <<>>, <<>>)]
    \o [i \in 1..Len(zip_entries) |->
        Item("call", ZipChild(PathResolve(v), zip_entries[i]), <<>>, <<>>, <<>>, <<>>)]

\* The lists the recursion loops run over once the consumer has had the
\* yielded list (yielded): the lists made before the yield.
RecursionLists(it, yielded) == [sub_dirs |-> it.a, zip_entries |-> it.b]

\* The error of a directory that cannot be listed leaving the generator.
ListFailureRaises(p) == [errs |-> errs, gen |-> "raised"]

\* A directory that is no directory or cannot be listed: the error goes to
\* onerror, when there is one, and the generator goes on.
ListFailure(p) ==
    [errs |-> IF wargs.onerror THEN Append(errs, p) ELSE errs, gen |-> "running"]

\* The virtual root of an os.walk tuple: the registry key, or the key and
\* the path relative to the working directory.
VirtualRoot(root, key, tmp) ==
    IF NameParts(root) = NameParts(tmp) THEN key
    ELSE key \o <<Sep>>
           \o normalize_path(StrJoin(SubSeq(NameParts(root), Len(NameParts(tmp)) + 1,
                                            Len(NameParts(root)))))

\* os.walk's lists for a directory: the entries that are directories, the rest.
OsDirs(root, locked) == SelectSeq(Listing(root, locked), LAMBDA n : IsDir(Child(root, n), locked))
OsNonDirs(root, locked) == SelectSeq(Listing(root, locked), LAMBDA n : ~IsDir(Child(root, n), locked))

\* The directories os.walk goes into, from the list dirs.
OsChildren(it, dirs) ==
    LET into == SelectSeq(dirs, LAMBDA n : wargs.followlinks \/ ~IsLink(Child(it.v, n), wargs.locked))
    IN  [i \in 1..Len(into) |-> Item("oswalk", Child(it.v, into[i]), it.key, it.tmp, <<>>, <<>>)]

Yield(t, real, top) ==
    /\ out' = Append(out, [root |-> t.root, dirs |-> t.dirs, files |-> t.files,
                           real |-> real, top |-> top])
    /\ cur' = t
    /\ gen' = "suspended"

WalkFrame == <<loaded_zips, pvars, avars, wargs>>

WalkInit ==
    /\ PathIdle
    /\ ArchiveIdle
    /\ loaded_zips \in WalkRegistries
    /\ wargs \in [top : Tops, topdown : BOOLEAN, onerror : BOOLEAN,
                  followlinks : BOOLEAN, locked : BOOLEAN]
    /\ stack = <<Item("call", normalize_path(wargs.top), <<>>, <<>>, <<>>, <<>>)>>
    /\ gen = "suspended"
    /\ cur = Tuple(<<>>, <<>>, <<>>, <<>>)
    /\ out = <<>>
    /\ errs = <<>>
    /\ skipped = <<>>
    /\ pruned = {}

\* The consumer asks for the next tuple.
Resume ==
    /\ gen = "suspended"
    /\ gen' = "running"
    /\ UNCHANGED <<WalkFrame, stack, cur, out, errs, skipped, pruned>>

\* The consumer removes a name from the subdirectory list it was handed by a
\* top-down walk.
Prune ==
    /\ gen = "suspended"
    /\ wargs.topdown
    /\ Cardinality(pruned) < MaxPrunes
    /\ \E i \in 1..Len(cur.dirs) :
          /\ cur.kids[cur.dirs[i]] \notin pruned
          /\ cur' = [cur EXCEPT !.dirs = SubSeq(@, 1, i - 1) \o SubSeq(@, i + 1, Len(@))]
          /\ pruned' = pruned \cup {cur.kids[cur.dirs[i]]}
    /\ UNCHANGED <<WalkFrame, stack, gen, out, errs, skipped>>

\* _walk_recursive(v) when v lies in a loaded archive: os.walk takes over at
\* the real path in the working directory.
WalkArchive ==
    /\ gen = "running" /\ stack # <<>> /\ Head(stack).t = "call"
    /\ LET m == find_longest_match_handle(Head(stack).v, loaded_zips)
           zip_key == CHOOSE k \in DOMAIN loaded_zips :
                         loaded_zips[k].temp_dir = m[1].temp_dir
       IN  /\ m[1] # NoHandle
           /\ stack' = <<Item("oswalk", PathJoin(m[1].temp_dir, m[2]), zip_key,
                              m[1].temp_dir, <<>>, <<>>)>> \o Tail(stack)
    /\ UNCHANGED <<WalkFrame, gen, cur, out, errs, skipped, pruned>>

\* _walk_recursive(v) on a real path that is no directory or cannot be listed.
WalkRealFails ==
    /\ gen = "running" /\ stack # <<>> /\ Head(stack).t = "call"
    /\ find_longest_match_handle(Head(stack).v, loaded_zips)[1] = NoHandle
    /\ ~CanList(Head(stack).v, wargs.locked)
    /\ errs' = ListFailure(Head(stack).v).errs
    /\ gen' = ListFailure(Head(stack).v).gen
    /\ skipped' = Append(skipped, Head(stack).v)
    /\ stack' = Tail(stack)
    /\ UNCHANGED <<WalkFrame, cur, out, pruned>>

\* _walk_recursive(v) on a real directory: the entries sorted, then the yield
\* (top-down) or the recursion with the yield after it (bottom-up).
WalkReal ==
    /\ gen = "running" /\ stack # <<>> /\ Head(stack).t = "call"
    /\ find_longest_match_handle(Head(stack).v, loaded_zips)[1] = NoHandle
    /\ CanList(Head(stack).v, wargs.locked)
    /\ LET v == Head(stack).v
           real_top == PathResolve(v)
           c == Classify(real_top, loaded_zips, wargs.followlinks, wargs.locked)
           virtual_dirs == c.sub_dirs \o c.zip_entries
           kids == [n \in {virtual_dirs[i] : i \in 1..Len(virtual_dirs)} |->
                      IF \E i \in 1..Len(c.sub_dirs) : c.sub_dirs[i] = n
                      THEN Child(v, n) ELSE ZipChild(real_top, n)]
       IN  IF wargs.topdown
           THEN /\ Yield(Tuple(v, virtual_dirs, c.sub_files, kids), TRUE, real_top)
                /\ stack' = <<Item("realdirs", v, <<>>, <<>>, c.sub_dirs, c.zip_entries)>>
                               \o Tail(stack)
           ELSE /\ stack' = ChildCalls(v, c.sub_dirs, c.zip_entries)
                               \o <<Item("yield", v, real_top, <<>>, virtual_dirs, c.sub_files)>>
                               \o Tail(stack)
                /\ UNCHANGED <<cur, out, gen>>
    /\ UNCHANGED <<WalkFrame, errs, skipped, pruned>>

\* After a top-down yield of the real branch: the two recursion loops.
RealDescend ==
    /\ gen = "running" /\ stack # <<>> /\ Head(stack).t = "realdirs"
    /\ LET r == RecursionLists(Head(stack), cur.dirs)
       IN  stack' = ChildCalls(Head(stack).v, r.sub_dirs, r.zip_entries) \o Tail(stack)
    /\ UNCHANGED <<WalkFrame, gen, cur, out, errs, skipped, pruned>>

\* The yield that ends _walk_recursive (bottom-up), or an os.walk directory
\* (bottom-up).
YieldLast ==
    /\ gen = "running" /\ stack # <<>> /\ Head(stack).t \in {"yield", "osyield"}
    /\ Yield(Tuple(Head(stack).v, Head(stack).a, Head(stack).b, <<>>),
             Head(stack).t = "yield", Head(stack).key)
    /\ stack' = Tail(stack)
    /\ UNCHANGED <<WalkFrame, errs, skipped, pruned>>

\* os.walk on a path it cannot scan: onerror, and nothing yielded for it.
OsWalkFails ==
    /\ gen = "running" /\ stack # <<>> /\ Head(stack).t = "oswalk"
    /\ ~CanList(Head(stack).v, wargs.locked)
    /\ errs' = IF wargs.onerror THEN Append(errs, Head(stack).v) ELSE errs
    /\ skipped' = Append(skipped, Head(stack).v)
    /\ stack' = Tail(stack)
    /\ UNCHANGED <<WalkFrame, gen, cur, out, pruned>>

\* os.walk on a directory of a working directory, its root rewritten to the
\* virtual form.
OsWalk ==
    /\ gen = "running" /\ stack # <<>> /\ Head(stack).t = "oswalk"
    /\ CanList(Head(stack).v, wargs.locked)
    /\ LET it == Head(stack)
           dirs == OsDirs(it.v, wargs.locked)
           files == OsNonDirs(it.v, wargs.locked)
           virtual_root == VirtualRoot(it.v, it.key, it.tmp)
           kids == [n \in {dirs[i] : i \in 1..Len(dirs)} |-> Child(virtual_root, n)]
       IN  IF wargs.topdown
           THEN /\ Yield(Tuple(virtual_root, dirs, files, kids), FALSE, it.v)
                /\ stack' = <<Item("osdirs", it.v, it.key, it.tmp, <<>>, <<>>)>> \o Tail(stack)
           ELSE /\ stack' = OsChildren(it, dirs)
                               \o <<Item("osyield", virtual_root, it.v, <<>>, dirs, files)>>
                               \o Tail(stack)
                /\ UNCHANGED <<cur, out, gen>>
    /\ UNCHANGED <<WalkFrame, errs, skipped, pruned>>

\* After a top-down yield of os.walk: it goes into the directories still in
\* the list it yielded.
OsDescend ==
    /\ gen = "running" /\ stack # <<>> /\ Head(stack).t = "osdirs"
    /\ stack' = OsChildren(Head(stack), cur.dirs) \o Tail(stack)
    /\ UNCHANGED <<WalkFrame, gen, cur, out, errs, skipped, pruned>>

\* The generator is exhausted.
Finish ==
    /\ gen = "running" /\ stack = <<>>
    /\ gen' = "done"
    /\ UNCHANGED <<WalkFrame, stack, cur, out, errs, skipped, pruned>>

WalkNext ==
    \/ Resume \/ Prune \/ WalkArchive \/ WalkRealFails \/ WalkReal \/ RealDescend
    \/ YieldLast \/ OsWalkFails \/ OsWalk \/ OsDescend \/ Finish

SpecWalk == WalkInit /\ [][WalkNext]_vars

-----------------------------------------------------------------------------
(* Claims about the walk *)

Names(seq) == { seq[i] : i \in 1..Len(seq) }
Count(seq, n) == Cardinality({ i \in 1..Len(seq) : seq[i] = n })

\* C1: in a top-down walk, once the consumer has removed a name from the
\* subdirectory list of a yielded tuple, no later tuple is for that child or
\* for anything beneath it, be the child a subdirectory or a mount point.
C1_PrunedChildNeverYielded ==
    (gen = "suspended" /\ Len(out) > 0) =>
        \A p \in pruned : ~UnderOrEq(cur.root, p)

\* The same, for the names removed from a list that os.walk yielded inside
\* an archive: there the removal is honoured.
PruneHonouredInsideArchive ==
    (gen = "suspended" /\ Len(out) > 0) =>
        \A p \in pruned :
            (\E k \in DOMAIN loaded_zips : Under(p, k)) => ~UnderOrEq(cur.root, p)

\* C8: in the real-directory branch every listed entry is in exactly one of
\* the two yielded lists: a directory in the subdirectory list, a
\* non-directory whose resolved path is a registry key in the subdirectory
\* list after all ordinary subdirectories, every other entry in the file
\* list; and the mounted archive's directories are yielded with the key, or
\* the key, "/" and the path relative to the working directory, as root.
C8_RealBranchLists ==
    /\ \A i \in 1..Len(out) :
          out[i].real =>
            LET t == out[i]
                isdir(n) == IsDir(Child(t.top, n), wargs.locked)
                ismount(n) == /\ ~isdir(n)
                              /\ normalize_path(PathResolve(Child(t.top, n)))
                                     \in DOMAIN loaded_zips
            IN  \A n \in Names(Listing(t.top, wargs.locked)) :
                   /\ Count(t.dirs \o t.files, n) = 1
                   /\ isdir(n) => n \in Names(t.dirs)
                   /\ ismount(n) =>
                        \E a \in 1..Len(t.dirs) :
                           /\ t.dirs[a] = n
                           /\ \A b \in 1..Len(t.dirs) : isdir(t.dirs[b]) => b < a
                   /\ (~isdir(n) /\ ~ismount(n)) => n \in Names(t.files)
    /\ \A i \in 1..Len(out) :
          ~out[i].real =>
            \E k \in DOMAIN loaded_zips :
               LET tmp == loaded_zips[k].temp_dir
               IN  /\ UnderOrEq(out[i].top, tmp)
                   /\ out[i].root =
                        IF out[i].top = tmp THEN k
                        ELSE k \o <<Sep>> \o SubSeq(out[i].top, Len(tmp) + 2, Len(out[i].top))
    /\ (gen = "done" /\ pruned = {}) =>
          \A i \in 1..Len(out) :
             out[i].real =>
               \A n \in Names(out[i].dirs) :
                  normalize_path(PathResolve(Child(out[i].top, n))) \in DOMAIN loaded_zips =>
                     \E j \in 1..Len(out) :
                        /\ ~out[j].real
                        /\ out[j].root = normalize_path(PathResolve(Child(out[i].top, n)))

\* The real directory a walk of the virtual path v starts in.
StartDir(v) ==
    LET m == find_longest_match_handle(v, loaded_zips)
    IN  IF m[1] # NoHandle THEN PathJoin(m[1].temp_dir, m[2]) ELSE PathResolve(v)

InWorkingDir(d) == \E k \in DOMAIN loaded_zips : UnderOrEq(d, loaded_zips[k].temp_dir)

\* The real directories one step beneath the listable real directory d: its
\* subdirectories, and the working directories of the archives mounted in it.
StepDirs(d) ==
    IF InWorkingDir(d)
    THEN { Child(d, n) : n \in { x \in Names(Listing(d, wargs.locked)) :
                                   /\ IsDir(Child(d, x), wargs.locked)
                                   /\ (wargs.followlinks \/ ~IsLink(Child(d, x), wargs.locked)) } }
    ELSE { PathResolve(Child(d, n)) :
              n \in { x \in Names(Listing(d, wargs.locked)) :
                         /\ IsDir(Child(d, x), wargs.locked)
                         /\ (wargs.followlinks \/ ~IsLink(Child(d, x), wargs.locked)) } }
         \cup { loaded_zips[k].temp_dir :
                  k \in { x \in DOMAIN loaded_zips :
                            \E n \in Names(Listing(d, wargs.locked)) :
                               /\ ~IsDir(Child(d, n), wargs.locked)
                               /\ normalize_path(PathResolve(Child(d, n))) = x } }

\* The real directories the walk comes to: the start, and what lies beneath
\* the listable ones among them.
RECURSIVE ReachedFrom(_)
ReachedFrom(S) ==
    LET more == S \cup UNION { StepDirs(d) : d \in { x \in S : CanList(x, wargs.locked) } }
    IN  IF more = S THEN S ELSE ReachedFrom(more)

Reached == ReachedFrom({StartDir(normalize_path(wargs.top))})

RealOf(p) == IF InWorkingDir(p) THEN p ELSE PathResolve(p)

\* C9: walk never raises because a directory is no directory or cannot be
\* listed: onerror, when supplied, is called once for it, no tuple is yielded
\* for it or beneath it, and every directory of a sibling branch that can be
\* listed is yielded, in the real-directory branch and inside an archive.
C9_ListErrorsSkipOneSubtree ==
    /\ gen # "raised"
    /\ \A i \in 1..Len(out) : CanList(out[i].top, wargs.locked)
    /\ \A i \in 1..Len(out), j \in 1..Len(skipped) :
          ~UnderOrEq(out[i].top, RealOf(skipped[j]))
    /\ ~wargs.onerror => errs = <<>>
    /\ wargs.onerror =>
          /\ Len(errs) = Len(skipped)
          /\ \A d \in Names(skipped) : Count(errs, d) = 1
    /\ (gen = "done" /\ pruned = {}) =>
          /\ { out[i].top : i \in 1..Len(out) }
                = { d \in Reached : CanList(d, wargs.locked) }
          /\ { RealOf(skipped[j]) : j \in 1..Len(skipped) }
                = { d \in Reached : ~CanList(d, wargs.locked) }

\* C9 witness: a finished walk that met an unreadable real directory and an
\* unreadable directory inside an archive, reported both, and yielded the
\* directories beside them.
C9_Witness ==
    /\ gen = "done"
    /\ wargs.onerror
    /\ Len(errs) = 2
    /\ \E i \in 1..Len(errs) : ~InWorkingDir(errs[i])
    /\ \E i \in 1..Len(errs) : InWorkingDir(errs[i])
    /\ \E i \in 1..Len(out) : out[i].root = KeyP \o <<Sep, "c">>
    /\ \E i \in 1..Len(out) : out[i].root = <<"r", Sep, "s1">>

\* The virtual root of the tuple for child n of tuple t.
KidRoot(t, n) ==
    IF ~t.real \/ IsDir(Child(t.top, n), wargs.locked)
    THEN Child(t.root, n)
    ELSE normalize_path(PathResolve(Child(t.top, n)))

\* C10: top-down, the tuple of a directory comes before the tuple of every
\* directory beneath it, bottom-up after all of them; in both modes the
\* subtrees of the children come in the order of the yielded subdirectory
\* list, every ordinary subdirectory's before any mount point's; and no
\* directory has two tuples.
C10_WalkOrder ==
    /\ \A i, j \in 1..Len(out) :
          Under(out[j].root, out[i].root) =>
             IF wargs.topdown THEN i < j ELSE j < i
    /\ \A i \in 1..Len(out) :
          \A a, b \in 1..Len(out[i].dirs) :
             a < b =>
               \A x, y \in 1..Len(out) :
                  (/\ UnderOrEq(out[x].root, KidRoot(out[i], out[i].dirs[a]))
                   /\ UnderOrEq(out[y].root, KidRoot(out[i], out[i].dirs[b])))
                  => x < y
    /\ \A i \in 1..Len(out) :
          out[i].real =>
             \A a, b \in 1..Len(out[i].dirs) :
                (/\ IsDir(Child(out[i].top, out[i].dirs[a]), wargs.locked)
                 /\ ~IsDir(Child(out[i].top, out[i].dirs[b]), wargs.locked))
                => \A x, y \in 1..Len(out) :
                      (/\ UnderOrEq(out[x].root, KidRoot(out[i], out[i].dirs[a]))
                       /\ UnderOrEq(out[y].root, KidRoot(out[i], out[i].dirs[b])))
                      => x < y
    /\ \A i, j \in 1..Len(out) : out[i].root = out[j].root => i = j
    /\ (gen = "done" /\ pruned = {}) =>
          Len(out) = Cardinality({ d \in Reached : CanList(d, wargs.locked) })

\* C10 witness: a finished bottom-up walk of a directory that holds a mount
\* point listed before its subdirectories, with tuples from both.
C10_Witness ==
    /\ gen = "done"
    /\ ~wargs.topdown
    /\ Len(out) >= 6
    /\ out[Len(out)].root = <<"r">>
    /\ \E x, y \in 1..Len(out) :
          /\ x < y
          /\ out[x].root = <<"r", Sep, "s1">>
          /\ out[y].root = KeyP \o <<Sep, "a">>

=============================================================================
